---- MODULE Spec2Model ----
(***************************************************************************)
(* Model of the PDN scanner (pdn_checker): the rule-based classifier, the  *)
(* value abstraction and deduplication, the column analyzer and the        *)
(* concurrent scan orchestrator with its table/column timeout hierarchy.   *)
(*                                                                         *)
(* Strings are sequences of one-character tokens.  Cyrillic letters are    *)
(* written as ASCII tokens "ru_x" (lower case) and "RU_x" (upper case).    *)
(* The Cyrillic category labels of the source are written in English:      *)
(* "Address", "Phone", "PassportRF", "INN", "CreditCard", "FIO",           *)
(* "PersonalData", "Passport", "SNILS_INN", "BirthDate", "TabNumber",      *)
(* "Photo", and "None" and "Unprocessed" for the two labels that mean no   *)
(* finding and not processed.                                              *)
(***************************************************************************)
EXTENDS Integers, Sequences, FiniteSets, TLC

\* ------------------------------------------------------------------------
\* Characters and strings
\* ------------------------------------------------------------------------

headerPatterns ==
  [ FIO |->
      { <<"ru_f", "ru_a", "ru_m", "ru_i", "ru_l">>,
        <<"f", "a", "m", "i">>,
        <<"s", "u", "r", "n">>,
        <<"l", "a", "s", "t", "n", "a", "m", "e">>,
        <<"l", "a", "s", "t", " ", "n", "a", "m", "e">>,
        <<"l", "a", "s", "t", "_", "n", "a", "m", "e">>,
        <<"ru_i", "ru_m", "ru_ya">>,
        <<"f", "i", "r", "s", "t", "n", "a", "m", "e">>,
        <<"f", "i", "r", "s", "t", " ", "n", "a", "m", "e">>,
        <<"f", "i", "r", "s", "t", "_", "n", "a", "m", "e">>,
        <<"ru_o", "ru_t", "ru_ch", "ru_e", "ru_s", "ru_t">>,
        <<"m", "i", "d", "d", "l", "e", "n", "a", "m", "e">>,
        <<"m", "i", "d", "d", "l", "e", " ", "n", "a", "m", "e">>,
        <<"m", "i", "d", "d", "l", "e", "_", "n", "a", "m", "e">>,
        <<"p", "a", "t", "r", "o", "n", "y", "m">>,
        <<"ru_f", "ru_a", "ru_m">>,
        <<"f", "i", "o">>,
        <<"ru_f", "ru_i", "ru_o">>,
        <<"f", "u", "l", "l", "n", "a", "m", "e">>,
        <<"f", "u", "l", "l", " ", "n", "a", "m", "e">> },
    PersonalData |->
      { <<"ru_k", "ru_o", "ru_n", "ru_t", "ru_a", "ru_k", "ru_t">>,
        <<"ru_s", "ru_o", "ru_t", "ru_r", "ru_u", "ru_d">>,
        <<"ru_r", "ru_u", "ru_k", "ru_o", "ru_v", "ru_o", "ru_d">>,
        <<"m", "a", "n", "a", "g">>,
        <<"ru_f", "ru_i", "ru_z", "ru_i">>,
        <<"ru_f", "ru_i", "ru_z", "ru_l">>,
        <<"ru_p", "ru_e", "ru_r", "ru_s", "ru_o", "ru_n">>,
        <<"p", "e", "r", "s", "o", "n">>,
        <<"e", "m", "p", "l">> },
    Address |->
      { <<"ru_a", "ru_d", "ru_r", "ru_e", "ru_s">>,
        <<"a", "d", "d", "r", "e", "s", "s">>,
        <<"a", "d", "d", "r">>,
        <<"l", "o", "c", "a", "t", "i", "o", "n">>,
        <<"ru_m", "ru_e", "ru_s", "ru_t", "ru_o">> },
    Email |->
      { <<"ru_ee", "ru_p">>,
        <<"m", "a", "i", "l">>,
        <<"ru_a", "ru_d", "ru_r", "ru_e", "ru_s", "ru_ee", "ru_p">>,
        <<"ru_a", "ru_d", "ru_r", "ru_e", "ru_s", " ", "ru_ee", "ru_p">> },
    Phone |->
      { <<"ru_t", "ru_e", "ru_l", "ru_e", "ru_f", "ru_o", "ru_n">>,
        <<"p", "h", "o", "n", "e">>,
        <<"t", "e", "l">>,
        <<"ru_m", "ru_o", "ru_b", "ru_i", "ru_l", "ru_soft", "ru_n">>,
        <<"m", "o", "b", "i", "l", "e">>,
        <<"c", "o", "n", "t", "a", "c", "t">> },
    Passport |->
      { <<"ru_p", "ru_a", "ru_s", "ru_p", "ru_o", "ru_r">>,
        <<"p", "a", "s", "s", "p", "o", "r">>,
        <<"ru_s", "ru_e", "ru_r", "ru_i", "ru_ya">>,
        <<"s", "e", "r", "i", "e", "s">> },
    SNILS_INN |->
      { <<"ru_s", "ru_n", "ru_i", "ru_l", "ru_s">>,
        <<"s", "n", "i", "l", "s">>,
        <<"ru_i", "ru_n", "ru_n">>,
        <<"t", "a", "x", "i", "d">>,
        <<"t", "a", "x", " ", "i", "d">> },
    BirthDate |->
      { <<"ru_r", "ru_o", "ru_zh", "ru_d">>,
        <<"b", "i", "r", "t", "h">>,
        <<"d", "a", "t", "e", "o", "f", "b", "i", "r", "t", "h">>,
        <<"b", "i", "r", "t", "h", "d", "a", "t", "e">>,
        <<"ru_d", "ru_a", "ru_t", "ru_a", "ru_r", "ru_o", "ru_zh", "ru_d">>,
        <<"ru_d", "ru_a", "ru_t", "ru_a", " ", "ru_r", "ru_o", "ru_zh", "ru_d">> },
    TabNumber |->
      { <<"ru_t", "ru_a", "ru_b">>,
        <<"ru_t", "ru_a", "ru_b", "ru_e", "ru_l", "ru_soft">> },
    Photo |->
      { <<"ru_f", "ru_o", "ru_t", "ru_o">>,
        <<"f", "o", "t", "o">>,
        <<"p", "h", "o", "t", "o">> } ]

AddressTokens ==
  { <<"ru_u", "ru_l", ".">>,
    <<"ru_u", "ru_l", "ru_i", "ru_c", "ru_a">>,
    <<"ru_d", "ru_o", "ru_m">>,
    <<"ru_k", "ru_v", ".">>,
    <<"ru_k", "ru_v", "ru_a", "ru_r", "ru_t", "ru_i", "ru_r", "ru_a">> }

BirthTokens ==
  { <<"ru_r", "ru_o", "ru_zh", "ru_d", "ru_e", "ru_n">>,
    <<"b", "i", "r", "t", "h", "d", "a", "y">> }

CyrLower ==
  { "ru_a", "ru_b", "ru_v", "ru_g", "ru_d", "ru_e", "ru_zh", "ru_z", "ru_i", "ru_j", "ru_k", "ru_l", "ru_m", "ru_n", "ru_o", "ru_p", "ru_r", "ru_s", "ru_t", "ru_u", "ru_f", "ru_h", "ru_c", "ru_ch", "ru_sh", "ru_sch", "ru_hard", "ru_y", "ru_soft", "ru_ee", "ru_yu", "ru_ya" }

CyrUpper ==
  { "RU_a", "RU_b", "RU_v", "RU_g", "RU_d", "RU_e", "RU_zh", "RU_z", "RU_i", "RU_j", "RU_k", "RU_l", "RU_m", "RU_n", "RU_o", "RU_p", "RU_r", "RU_s", "RU_t", "RU_u", "RU_f", "RU_h", "RU_c", "RU_ch", "RU_sh", "RU_sch", "RU_hard", "RU_y", "RU_soft", "RU_ee", "RU_yu", "RU_ya" }

LatLower ==
  { "a", "b", "c", "d", "e", "f", "g", "h", "i", "j", "k", "l", "m", "n", "o", "p", "q", "r", "s", "t", "u", "v", "w", "x", "y", "z" }

LatUpper ==
  { "A", "B", "C", "D", "E", "F", "G", "H", "I", "J", "K", "L", "M", "N", "O", "P", "Q", "R", "S", "T", "U", "V", "W", "X", "Y", "Z" }

LowerOf ==
  [ c \in LatUpper \cup CyrUpper \cup {"RU_yo"} |->
      CASE c = "A" -> "a"
        [] c = "B" -> "b"
        [] c = "C" -> "c"
        [] c = "D" -> "d"
        [] c = "E" -> "e"
        [] c = "F" -> "f"
        [] c = "G" -> "g"
        [] c = "H" -> "h"
        [] c = "I" -> "i"
        [] c = "J" -> "j"
        [] c = "K" -> "k"
        [] c = "L" -> "l"
        [] c = "M" -> "m"
        [] c = "N" -> "n"
        [] c = "O" -> "o"
        [] c = "P" -> "p"
        [] c = "Q" -> "q"
        [] c = "R" -> "r"
        [] c = "S" -> "s"
        [] c = "T" -> "t"
        [] c = "U" -> "u"
        [] c = "V" -> "v"
        [] c = "W" -> "w"
        [] c = "X" -> "x"
        [] c = "Y" -> "y"
        [] c = "Z" -> "z"
        [] c = "RU_a" -> "ru_a"
        [] c = "RU_b" -> "ru_b"
        [] c = "RU_v" -> "ru_v"
        [] c = "RU_g" -> "ru_g"
        [] c = "RU_d" -> "ru_d"
        [] c = "RU_e" -> "ru_e"
        [] c = "RU_zh" -> "ru_zh"
        [] c = "RU_z" -> "ru_z"
        [] c = "RU_i" -> "ru_i"
        [] c = "RU_j" -> "ru_j"
        [] c = "RU_k" -> "ru_k"
        [] c = "RU_l" -> "ru_l"
        [] c = "RU_m" -> "ru_m"
        [] c = "RU_n" -> "ru_n"
        [] c = "RU_o" -> "ru_o"
        [] c = "RU_p" -> "ru_p"
        [] c = "RU_r" -> "ru_r"
        [] c = "RU_s" -> "ru_s"
        [] c = "RU_t" -> "ru_t"
        [] c = "RU_u" -> "ru_u"
        [] c = "RU_f" -> "ru_f"
        [] c = "RU_h" -> "ru_h"
        [] c = "RU_c" -> "ru_c"
        [] c = "RU_ch" -> "ru_ch"
        [] c = "RU_sh" -> "ru_sh"
        [] c = "RU_sch" -> "ru_sch"
        [] c = "RU_hard" -> "ru_hard"
        [] c = "RU_y" -> "ru_y"
        [] c = "RU_soft" -> "ru_soft"
        [] c = "RU_ee" -> "ru_ee"
        [] c = "RU_yu" -> "ru_yu"
        [] c = "RU_ya" -> "ru_ya"
        [] c = "RU_yo" -> "ru_yo" ]

Digits == { "0", "1", "2", "3", "4", "5", "6", "7", "8", "9" }

Spaces == { " ", "\t", "\n", "\f", "\r" }

\* the sentinel sample value "N/A"
NA == <<"N", "/", "A">>

\* strings.ToLower, one character
lowerChar(c) == IF c \in DOMAIN LowerOf THEN LowerOf[c] ELSE c

\* strings.ToLower
ToLower(s) == [i \in 1..Len(s) |-> lowerChar(s[i])]

\* strings.Contains(s, sub)
Contains(s, sub) ==
  \E i \in 0..(Len(s) - Len(sub)) :
    \A k \in 1..Len(sub) : s[i + k] = sub[k]

\* containsAny(s, substrings)
containsAny(s, substrings) == \E sub \in substrings : Contains(s, sub)

\* getValuePattern: one class letter per character, in order.  The Cyrillic
\* ranges of the source run from U+0430 to U+044F and from U+0410 to U+042F,
\* which leaves U+0451 and U+0401 (ru_yo, RU_yo) outside.
patternChar(r) ==
  IF r \in CyrLower \cup CyrUpper \cup LatLower \cup LatUpper THEN "A"
  ELSE IF r \in Digits THEN "9"
  ELSE "#"

\* mutant of getValuePattern: a character that is neither a letter nor a
\* digit writes nothing
getValuePatternSkipOther(value) ==
  SelectSeq([i \in 1..Len(value) |-> patternChar(value[i])], LAMBDA x : x # "#")

getValuePattern(value) == [i \in 1..Len(value) |-> patternChar(value[i])]

\* ------------------------------------------------------------------------
\* Regular expressions of valuePatterns (RE2 syntax, unanchored search)
\* ------------------------------------------------------------------------

\* pattern elements: a character class taken once, optionally, zero or more
\* or one or more times; a word boundary; begin or end of text
One(S) == [kind |-> "one", set |-> S, neg |-> FALSE]

Opt(S) == [kind |-> "opt", set |-> S, neg |-> FALSE]

Plus(S) == [kind |-> "plus", set |-> S, neg |-> FALSE]

StarNot(S) == [kind |-> "star", set |-> S, neg |-> TRUE]

OneNot(S) == [kind |-> "one", set |-> S, neg |-> TRUE]

WordB == [kind |-> "wb", set |-> {}, neg |-> FALSE]

Bol == [kind |-> "bol", set |-> {}, neg |-> FALSE]

Eol == [kind |-> "eol", set |-> {}, neg |-> FALSE]

\* \d{n}
DigitsN(n) == [i \in 1..n |-> One(Digits)]

\* a literal word
Lit(w) == [i \in 1..Len(w) |-> One({w[i]})]

InCls(c, e) == (c \in e.set) # e.neg

\* \w of RE2 is ASCII only
WordChars == LatLower \cup LatUpper \cup Digits \cup {"_"}

\* is the character at position i (1-based) a word character; FALSE outside
isWordAt(s, i) == i >= 1 /\ i <= Len(s) /\ s[i] \in WordChars

RECURSIVE MatchFrom(_, _, _, _)
\* does pat[k..] match s starting after i consumed characters
MatchFrom(pat, k, s, i) ==
  IF k > Len(pat) THEN TRUE
  ELSE LET e == pat[k]
           here == i < Len(s) /\ InCls(s[i + 1], e)
       IN CASE e.kind = "one" -> here /\ MatchFrom(pat, k + 1, s, i + 1)
            [] e.kind = "opt" -> \/ here /\ MatchFrom(pat, k + 1, s, i + 1)
                                 \/ MatchFrom(pat, k + 1, s, i)
            [] e.kind = "star" -> \/ MatchFrom(pat, k + 1, s, i)
                                  \/ here /\ MatchFrom(pat, k, s, i + 1)
            [] e.kind = "plus" -> here /\ (\/ MatchFrom(pat, k, s, i + 1)
                                           \/ MatchFrom(pat, k + 1, s, i + 1))
            [] e.kind = "wb" -> /\ isWordAt(s, i) # isWordAt(s, i + 1)
                                /\ MatchFrom(pat, k + 1, s, i)
            [] e.kind = "bol" -> i = 0 /\ MatchFrom(pat, k + 1, s, i)
            [] e.kind = "eol" -> i = Len(s) /\ MatchFrom(pat, k + 1, s, i)

\* regexp.MatchString for a regular expression given as its alternatives
MatchString(alts, s) ==
  \E pat \in alts : \E i \in 0..Len(s) : MatchFrom(pat, 1, s, i)

SepSDP == Spaces \cup {"-", "("}

SepPSD == {")", "-"} \cup Spaces

SepSD == Spaces \cup {"-"}

\* [a-z0-9._%+-]+@[a-z0-9.-]+\.[a-z]{2,}
reEmail ==
  { << Plus(LatLower \cup Digits \cup {".", "_", "%", "+", "-"}), One({"@"}),
       Plus(LatLower \cup Digits \cup {".", "-"}), One({"."}),
       One(LatLower), Plus(LatLower) >> }

\* (\+7|8)[\s\-\(]?\d{3}[\)\s\-]?\d{3}[\s\-]?\d{2}[\s\-]?\d{2}
rePhoneTail ==
  <<Opt(SepSDP)>> \o DigitsN(3) \o <<Opt(SepPSD)>> \o DigitsN(3)
    \o <<Opt(SepSD)>> \o DigitsN(2) \o <<Opt(SepSD)>> \o DigitsN(2)

rePhone ==
  { Lit(<<"+", "7">>) \o rePhoneTail, Lit(<<"8">>) \o rePhoneTail }

\* \b(\d{2}\s?\d{2}\s?\d{6}|\d{10})\b|(?:passport|seriya|nomer)[^\d]*(\d{4})[^\d]*(\d{6})
rePassportWords ==
  { <<"ru_p", "ru_a", "ru_s", "ru_p", "ru_o", "ru_r", "ru_t">>,
    <<"ru_s", "ru_e", "ru_r", "ru_i", "ru_ya">>,
    <<"ru_n", "ru_o", "ru_m", "ru_e", "ru_r">> }

rePassport ==
  { <<WordB>> \o DigitsN(2) \o <<Opt(Spaces)>> \o DigitsN(2) \o <<Opt(Spaces)>>
      \o DigitsN(6) \o <<WordB>>,
    <<WordB>> \o DigitsN(10) \o <<WordB>> }
  \cup { Lit(w) \o <<StarNot(Digits)>> \o DigitsN(4) \o <<StarNot(Digits)>>
           \o DigitsN(6) : w \in rePassportWords }

\* \b\d{3}[-]?\d{3}[-]?\d{3}[-\s]?\d{2}\b
reSnils ==
  { <<WordB>> \o DigitsN(3) \o <<Opt({"-"})>> \o DigitsN(3) \o <<Opt({"-"})>>
      \o DigitsN(3) \o <<Opt(SepSD)>> \o DigitsN(2) \o <<WordB>> }

\* (^|\D)\d{12}($|\D)
reInn ==
  { <<b>> \o DigitsN(12) \o <<e>> :
      b \in {Bol, OneNot(Digits)}, e \in {Eol, OneNot(Digits)} }

\* \d{4}[\s\-]?\d{4}[\s\-]?\d{4}[\s\-]?\d{4}
reCard ==
  { DigitsN(4) \o <<Opt(SepSD)>> \o DigitsN(4) \o <<Opt(SepSD)>>
      \o DigitsN(4) \o <<Opt(SepSD)>> \o DigitsN(4) }

valuePatterns ==
  [ Email |-> reEmail, Phone |-> rePhone, PassportRF |-> rePassport,
    SNILS |-> reSnils, INN |-> reInn, CreditCard |-> reCard ]

\* ------------------------------------------------------------------------
\* PDN classifier
\* ------------------------------------------------------------------------

\* the categories whose value regular expression matches the input
valueTypes(input) ==
  { t \in DOMAIN valuePatterns : MatchString(valuePatterns[t], input) }

\* mutant of headerTypes: a keyword counts only when it is the whole input
headerTypesWhole(input) ==
  { t \in DOMAIN headerPatterns : input \in headerPatterns[t] }

\* the categories one of whose keywords occurs in the input
headerTypes(input) ==
  { t \in DOMAIN headerPatterns : containsAny(input, headerPatterns[t]) }

\* all orders in which the elements of a finite set can be enumerated (the
\* iteration order of a Go map is unspecified)
Perms(S) ==
  { p \in [1..Cardinality(S) -> S] :
      \A i, j \in 1..Cardinality(S) : i # j => p[i] # p[j] }

\* contains(slice, item)
contains(slice, item) == \E i \in 1..Len(slice) : slice[i] = item

RECURSIVE appendIfNotExists(_, _)
\* appendIfNotExists(slice, items...)
appendIfNotExists(slice, items) ==
  IF items = <<>> THEN slice
  ELSE appendIfNotExists(
         IF contains(slice, Head(items)) THEN slice
         ELSE Append(slice, Head(items)),
         Tail(items))

\* mutant of checkForPDNPatterns: the input is not lower-cased
checkForPDNPatternsCaseSensitive(input) ==
  LET low == input
      V == valueTypes(low)
      H == headerTypes(low)
      addr == IF containsAny(low, AddressTokens) THEN <<"Address">> ELSE <<>>
      birth == IF containsAny(low, BirthTokens) THEN <<"BirthDate">> ELSE <<>>
  IN { appendIfNotExists(
         appendIfNotExists(appendIfNotExists(p, q), addr), birth) :
         p \in Perms(V), q \in Perms(H) }

\* checkForPDNPatterns: the slices foundTypes the function can return, one
\* for every iteration order of the two rule maps
checkForPDNPatterns(input) ==
  LET low == ToLower(input)
      V == valueTypes(low)
      H == headerTypes(low)
      addr == IF containsAny(low, AddressTokens) THEN <<"Address">> ELSE <<>>
      birth == IF containsAny(low, BirthTokens) THEN <<"BirthDate">> ELSE <<>>
  IN { appendIfNotExists(
         appendIfNotExists(appendIfNotExists(p, q), addr), birth) :
         p \in Perms(V), q \in Perms(H) }

\* ------------------------------------------------------------------------
\* Column analyzer
\* ------------------------------------------------------------------------

\* what the database answers to the queries of getSampleValues for one
\* column.  queryErr: "" when the sample query (or its CONVERT fallback)
\* returns rows, else why both failed: "db" for a database error, "ctx" for
\* a context that is done.  checkErr: whether the existence checks, made when
\* no row came back, fail.
DbOutcome(queryErr, rows, checkErr) ==
  [queryErr |-> queryErr, rows |-> rows, checkErr |-> checkErr]

RECURSIVE lastSeen(_, _)
\* mutant of firstSeen: a later value of a pattern replaces the earlier one
lastSeen(values, patternMap) ==
  IF values = <<>> THEN patternMap
  ELSE LET val == Head(values)
           pattern == getValuePattern(val)
       IN lastSeen(Tail(values),
            { vp \in patternMap : vp.Pattern # pattern }
              \cup {[Value |-> val, Pattern |-> pattern]})

RECURSIVE firstSeen(_, _)
\* the patternMap loop of getSampleValues: the first value of each pattern
firstSeen(values, patternMap) ==
  IF values = <<>> THEN patternMap
  ELSE LET val == Head(values)
           pattern == getValuePattern(val)
       IN firstSeen(Tail(values),
            IF \E vp \in patternMap : vp.Pattern = pattern THEN patternMap
            ELSE patternMap \cup {[Value |-> val, Pattern |-> pattern]})

\* getSampleValues: the (values, err) pairs it can return; the order of the
\* deduplicated values is the iteration order of patternMap
getSampleValues(d) ==
  IF d.queryErr # ""
  THEN { [values |-> <<>>, err |-> "query: " \o d.queryErr] }
  ELSE IF d.rows = <<>> /\ d.checkErr
       THEN { [values |-> <<>>, err |-> "check: db"] }
       ELSE { [values |-> v, err |-> ""] : v \in Perms(firstSeen(d.rows, {})) }

PDNResult(table, column, foundIn, sampleValue, pattern, pdnType) ==
  [TableName |-> table, ColumnName |-> column, FoundIn |-> foundIn,
   SampleValue |-> sampleValue, Pattern |-> pattern, PDNType |-> pdnType]

\* the Pattern text of the three synthetic records
ErrPattern(err) == <<"sample values error: " \o err>>

ColumnTimeoutPattern == <<"column timeout">>

TableTimeoutPattern == <<"table timeout">>

RECURSIVE Flatten(_)
Flatten(ss) == IF ss = <<>> THEN <<>> ELSE Head(ss) \o Flatten(Tail(ss))

\* mutant of columnRecords: the none record is decided by the name alone
columnRecordsNoneByName(table, column, values, pdnTypes, valueTypesOf) ==
  LET sampleValue == IF Len(values) > 0 THEN values[1].Value ELSE NA
      firstPattern == IF Len(values) > 0 THEN values[1].Pattern ELSE <<>>
      header == [i \in 1..Len(pdnTypes) |->
                   PDNResult(table, column, "header", sampleValue,
                             firstPattern, pdnTypes[i])]
      value == Flatten([i \in 1..Len(values) |->
                 [k \in 1..Len(valueTypesOf[i]) |->
                    PDNResult(table, column, "value", values[i].Value,
                              values[i].Pattern, valueTypesOf[i][k])]])
      none == IF Len(pdnTypes) = 0
              THEN << PDNResult(table, column, "none", sampleValue,
                                firstPattern, "None") >>
              ELSE <<>>
  IN header \o value \o none

\* the records of analyzeColumn for one choice of the sampled values, of the
\* categories of the name and of the categories of each value
columnRecords(table, column, values, pdnTypes, valueTypesOf) ==
  LET sampleValue == IF Len(values) > 0 THEN values[1].Value ELSE NA
      firstPattern == IF Len(values) > 0 THEN values[1].Pattern ELSE <<>>
      header == [i \in 1..Len(pdnTypes) |->
                   PDNResult(table, column, "header", sampleValue,
                             firstPattern, pdnTypes[i])]
      value == Flatten([i \in 1..Len(values) |->
                 [k \in 1..Len(valueTypesOf[i]) |->
                    PDNResult(table, column, "value", values[i].Value,
                              values[i].Pattern, valueTypesOf[i][k])]])
      none == IF Len(pdnTypes) = 0 /\ \A i \in 1..Len(values) : valueTypesOf[i] = <<>>
              THEN << PDNResult(table, column, "none", sampleValue,
                                firstPattern, "None") >>
              ELSE <<>>
  IN header \o value \o none

\* mutant of analyzeValues: the values are not classified when the name has
\* a category
analyzeValuesNameFirst(table, column, g) ==
  IF g.err # ""
  THEN { [results |-> << PDNResult(table, column, "error", NA,
                                   ErrPattern(g.err), "Unprocessed") >>,
          err |-> FALSE] }
  ELSE { [results |-> columnRecords(table, column, g.values, pt,
                        [i \in 1..Len(g.values) |->
                           IF pt # <<>> THEN <<>> ELSE vt[i]]),
          err |-> FALSE] :
           pt \in checkForPDNPatterns(column),
           vt \in { f \in [1..Len(g.values) ->
                             UNION { checkForPDNPatterns(g.values[i].Value) :
                                       i \in 1..Len(g.values) }] :
                      \A i \in 1..Len(g.values) :
                        f[i] \in checkForPDNPatterns(g.values[i].Value) } }

\* analyzeColumn after getSampleValues returned g = (values, err)
analyzeValues(table, column, g) ==
  IF g.err # ""
  THEN { [results |-> << PDNResult(table, column, "error", NA,
                                   ErrPattern(g.err), "Unprocessed") >>,
          err |-> FALSE] }
  ELSE { [results |-> columnRecords(table, column, g.values, pt, vt),
          err |-> FALSE] :
           pt \in checkForPDNPatterns(column),
           vt \in { f \in [1..Len(g.values) ->
                             UNION { checkForPDNPatterns(g.values[i].Value) :
                                       i \in 1..Len(g.values) }] :
                      \A i \in 1..Len(g.values) :
                        f[i] \in checkForPDNPatterns(g.values[i].Value) } }

\* mutant of analyzeColumn: a sampling error is returned to the caller
analyzeColumnPropagate(table, column, d) ==
  UNION { IF g.err # ""
          THEN { [results |-> <<>>, err |-> TRUE] }
          ELSE { [results |-> columnRecords(table, column, g.values, pt, vt),
                  err |-> FALSE] :
                   pt \in checkForPDNPatterns(column),
                   vt \in { f \in [1..Len(g.values) ->
                                     UNION { checkForPDNPatterns(g.values[i].Value) :
                                               i \in 1..Len(g.values) }] :
                              \A i \in 1..Len(g.values) :
                                f[i] \in checkForPDNPatterns(g.values[i].Value) } }
        : g \in getSampleValues(d) }

\* analyzeColumn: the (results, err) pairs it can return when the database
\* answers d
analyzeColumn(table, column, d) ==
  UNION { analyzeValues(table, column, g) : g \in getSampleValues(d) }

\* createTableTimeoutResult
createTableTimeoutResult(table) ==
  PDNResult(table, <<"A", "L", "L", "_", "C", "O", "L", "U", "M", "N", "S">>,
            "timeout", NA, TableTimeoutPattern, "Unprocessed")

\* ------------------------------------------------------------------------
\* Inputs of the scan
\* ------------------------------------------------------------------------

\* number of tables returned by getTablesAndViews
NumTables == 2

\* largest number of columns in the catalog, all tables together
MaxColumnsTotal == 2

colAddr == <<"a", "d", "d", "r">>

colPlain == <<"c", "o", "l", "1">>

\* column names, in catalog order
ColNames == << colAddr, colPlain >>

ColNameSet == { ColNames[i] : i \in 1..Len(ColNames) }

\* the column lists getColumns can return: distinct names, catalog order
ColumnLists ==
  { cols \in UNION { [1..n -> ColNameSet] : n \in 0..Len(ColNames) } :
      \A i, j \in 1..Len(cols) :
        i < j => \E a, b \in 1..Len(ColNames) :
                   a < b /\ ColNames[a] = cols[i] /\ ColNames[b] = cols[j] }

valEmail == <<"a", "@", "b", ".", "r", "u">>

\* the answers of the database to the sampling queries of one column
DbOutcomes ==
  { DbOutcome("db", <<>>, FALSE), DbOutcome("ctx", <<>>, FALSE),
    DbOutcome("", <<>>, TRUE), DbOutcome("", <<>>, FALSE),
    DbOutcome("", <<valEmail>>, FALSE) }

\* the only answer left to a query whose context is done
DbCancelled == DbOutcome("ctx", <<>>, FALSE)

Tables == 1..NumTables

\* analyzeColumn over the inputs of the scan
analyzeColumnOf ==
  [t \in Tables, c \in ColNameSet, d \in DbOutcomes |-> analyzeColumn(t, c, d)]

\* ------------------------------------------------------------------------
\* Scan orchestrator and column workers
\* ------------------------------------------------------------------------

VARIABLES
  ti,                 \* index of the table of the current loop iteration
  pc,                 \* position of analyzeTablesWithBatches
  columns,            \* columns[t]: the columns listed for table t
  listed,             \* listed[t]: "pending", "ok", "failed" (getColumns)
  tableCtx,           \* tableCtx[t]: "none", "live", "expired", "cancelled"
  wk,                 \* wk[t][c]: the worker goroutine of column c of table t
  columnResultsChan,  \* columnResultsChan[t]: buffered channel of table t
  errorChan,          \* errorChan[t]: buffered channel of table t
  iter,               \* iterations done of the collecting loop
  allTableResults,    \* results collected for the current table
  processedColumns,   \* column names seen in a received result
  resultsChan,        \* every record sent on resultsChan so far, in order
  call                \* a call of one function on its own: the function, its
                      \* argument and, once it has returned, its result

vars == << ti, pc, columns, listed, tableCtx, wk, columnResultsChan, errorChan, iter,
           allTableResults, processedColumns, resultsChan, call >>

\* the variables of the scan
scanVars == << ti, pc, columns, listed, tableCtx, wk, columnResultsChan, errorChan,
               iter, allTableResults, processedColumns, resultsChan >>

\* no function is called on its own during a scan
NoCall == [fn |-> "", arg |-> <<>>, ret |-> <<>>, returned |-> FALSE]

\* a goroutine: its position, the timer of its context, the answer db of the
\* database to its queries and the (res, err) analyzeColumn returned
NoWorker ==
  [pc |-> "none", timer |-> "none", db |-> DbOutcome("", <<>>, FALSE),
   res |-> <<>>, err |-> FALSE]

\* the state at the entry of analyzeTablesWithBatches
ScanInit ==
  /\ ti = 1
  /\ pc = IF NumTables = 0 THEN "done" ELSE "begin"
  /\ columns = [t \in Tables |-> <<>>]
  /\ listed = [t \in Tables |-> "pending"]
  /\ tableCtx = [t \in Tables |-> "none"]
  /\ wk = [t \in Tables |-> [c \in ColNameSet |-> NoWorker]]
  /\ columnResultsChan = [t \in Tables |-> <<>>]
  /\ errorChan = [t \in Tables |-> <<>>]
  /\ iter = 0
  /\ allTableResults = <<>>
  /\ processedColumns = {}
  /\ resultsChan = <<>>

Init == ScanInit /\ call = NoCall

\* mutant of chanOf: one pair of channels made before the table loop
chanOfShared(t) == 1

\* the channels made for table t: one pair per iteration of the table loop
chanOf(t) == t

\* tableCtx.Done() is closed
tableDone(t) == tableCtx[t] \in {"expired", "cancelled"}

\* mutant of ctxDone: the context is derived from context.Background()
ctxDoneOwn(t, c) == wk[t][c].timer \in {"expired", "released"}

\* the context of the worker of column c: context.WithTimeout(tableCtx, 30s)
ctxDone(t, c) == wk[t][c].timer \in {"expired", "released"} \/ tableDone(t)

\* the number of columns listed so far, all tables together
listedTotal == Cardinality({ tc \in Tables \X ColNameSet : wk[tc[1]][tc[2]].pc # "none" })

\* the loop header: the next table, or the end of the function
nextPc == IF ti = NumTables THEN "done" ELSE "begin"

nextTi == IF ti = NumTables THEN ti ELSE ti + 1

\* mutant of ListColumnsFail: the table is skipped without a record
ListColumnsFailSilent ==
  /\ pc = "begin"
  /\ tableCtx' = [tableCtx EXCEPT ![ti] = "cancelled"]
  /\ pc' = nextPc
  /\ ti' = nextTi
  /\ listed' = [listed EXCEPT ![ti] = "failed"]
  /\ UNCHANGED << call, columns, wk, columnResultsChan, errorChan, iter,
                  allTableResults, processedColumns, resultsChan >>

\* getColumns fails: tableCancel, one table-level record, next table
ListColumnsFail ==
  /\ pc = "begin"
  /\ tableCtx' = [tableCtx EXCEPT ![ti] = "cancelled"]
  /\ resultsChan' = Append(resultsChan, createTableTimeoutResult(ti))
  /\ pc' = nextPc
  /\ ti' = nextTi
  /\ listed' = [listed EXCEPT ![ti] = "failed"]
  /\ UNCHANGED << call, columns, wk, columnResultsChan, errorChan, iter,
                  allTableResults, processedColumns >>

\* getColumns succeeds: the two channels are made and one goroutine per
\* column is started; each goroutine derives its context from tableCtx and
\* calls analyzeColumn
ListColumnsOk ==
  /\ pc = "begin"
  /\ \E cols \in ColumnLists :
       /\ listedTotal + Len(cols) <= MaxColumnsTotal
       /\ columns' = [columns EXCEPT ![ti] = cols]
       /\ wk' = [wk EXCEPT ![ti] =
                   [c \in ColNameSet |->
                      IF contains(cols, c)
                      THEN [NoWorker EXCEPT !.pc = "sampling", !.timer = "live"]
                      ELSE NoWorker]]
  /\ listed' = [listed EXCEPT ![ti] = "ok"]
  /\ tableCtx' = [tableCtx EXCEPT ![ti] = "live"]
  /\ columnResultsChan' = [columnResultsChan EXCEPT ![chanOf(ti)] = <<>>]
  /\ errorChan' = [errorChan EXCEPT ![chanOf(ti)] = <<>>]
  /\ allTableResults' = <<>>
  /\ processedColumns' = {}
  /\ iter' = 0
  /\ pc' = "collect"
  /\ UNCHANGED << call, ti, resultsChan >>

\* the 3 minute deadline of tableCtx passes
TableExpire(t) ==
  /\ tableCtx[t] = "live"
  /\ tableCtx' = [tableCtx EXCEPT ![t] = "expired"]
  /\ UNCHANGED << call, ti, pc, columns, listed, wk, columnResultsChan, errorChan, iter,
                  allTableResults, processedColumns, resultsChan >>

\* the 30 second deadline of the context of column c passes while
\* analyzeColumn runs (the context is not looked at after that)
ColumnExpire(t, c) ==
  /\ wk[t][c].pc = "sampling"
  /\ wk[t][c].timer = "live"
  /\ ~tableDone(t)
  /\ wk' = [wk EXCEPT ![t][c].timer = "expired"]
  /\ UNCHANGED << call, ti, pc, columns, listed, tableCtx, columnResultsChan, errorChan,
                  iter, allTableResults, processedColumns, resultsChan >>

\* analyzeColumn returns in the goroutine of column c
AnalyzeDone(t, c) ==
  /\ wk[t][c].pc = "sampling"
  /\ \E d \in DbOutcomes :
       /\ ctxDone(t, c) <=> d = DbCancelled
       /\ \E r \in analyzeColumnOf[t, c, d] :
            wk' = [wk EXCEPT ![t][c].pc = "analysed",
                             ![t][c].db = d,
                             ![t][c].res = r.results,
                             ![t][c].err = r.err]
  /\ UNCHANGED << call, ti, pc, columns, listed, tableCtx, columnResultsChan, errorChan,
                  iter, allTableResults, processedColumns, resultsChan >>

\* mutant of chanCap: the two channels of a table hold one element
chanCapOne(t) == 1

\* the capacity of columnResultsChan and of errorChan of table t
chanCap(t) == Len(columns[t])

\* the first send of the goroutine: the error on errorChan when
\* analyzeColumn failed, the result on columnResultsChan otherwise
WorkerSendFirst(t, c) ==
  /\ wk[t][c].pc = "analysed"
  /\ IF wk[t][c].err
     THEN /\ Len(errorChan[chanOf(t)]) < chanCap(t)
          /\ errorChan' = [errorChan EXCEPT ![chanOf(t)] = Append(@, "err")]
          /\ UNCHANGED columnResultsChan
     ELSE /\ Len(columnResultsChan[chanOf(t)]) < chanCap(t)
          /\ columnResultsChan' =
               [columnResultsChan EXCEPT ![chanOf(t)] = Append(@, wk[t][c].res)]
          /\ UNCHANGED errorChan
  /\ wk' = [wk EXCEPT ![t][c].pc = "sent"]
  /\ UNCHANGED << call, ti, pc, columns, listed, tableCtx, iter, allTableResults,
                  processedColumns, resultsChan >>

\* the second send of the goroutine, its return and the deferred cancel
WorkerSendSecond(t, c) ==
  /\ wk[t][c].pc = "sent"
  /\ IF wk[t][c].err
     THEN /\ Len(columnResultsChan[chanOf(t)]) < chanCap(t)
          /\ columnResultsChan' =
               [columnResultsChan EXCEPT ![chanOf(t)] = Append(@, <<>>)]
          /\ UNCHANGED errorChan
     ELSE /\ Len(errorChan[chanOf(t)]) < chanCap(t)
          /\ errorChan' = [errorChan EXCEPT ![chanOf(t)] = Append(@, "nil")]
          /\ UNCHANGED columnResultsChan
  /\ wk' = [wk EXCEPT ![t][c].pc = "returned",
                      ![t][c].timer = IF @ = "live" THEN "released" ELSE @]
  /\ UNCHANGED << call, ti, pc, columns, listed, tableCtx, iter, allTableResults,
                  processedColumns, resultsChan >>

\* mutant of namesOf: only a record with a category of personal data names
\* its column
namesOfFindings(res) ==
  { res[i].ColumnName :
      i \in { j \in 1..Len(res) : res[j].PDNType \notin {"None", "Unprocessed"} } }

\* the names of the columns of the records of a result
namesOf(res) == { res[i].ColumnName : i \in 1..Len(res) }

\* mutant of ReceiveResult: the suppression is applied to each result as it
\* arrives, on what has been collected so far
ReceiveResultSuppressing ==
  /\ pc = "collect"
  /\ iter < Len(columns[ti])
  /\ columnResultsChan[chanOf(ti)] # <<>>
  /\ LET res == Head(columnResultsChan[chanOf(ti)])
     IN /\ allTableResults' = allTableResults \o res
        /\ resultsChan' =
             resultsChan \o
               [i \in 1..Len(res) |->
                  IF /\ res[i].PDNType = "Address"
                     /\ \A k \in 1..Len(allTableResults \o res) :
                          (allTableResults \o res)[k].PDNType
                            \in {"Address", "None", "Unprocessed"}
                  THEN [res[i] EXCEPT !.PDNType = "None"]
                  ELSE res[i]]
        /\ processedColumns' = processedColumns \cup namesOf(res)
  /\ columnResultsChan' = [columnResultsChan EXCEPT ![chanOf(ti)] = Tail(@)]
  /\ iter' = iter + 1
  /\ UNCHANGED << call, ti, pc, columns, listed, tableCtx, wk, errorChan >>

\* mutant of ReceiveResult: the loop also drains the channel of a table the
\* orchestrator has already left
ReceiveResultLate ==
  /\ pc = "collect"
  /\ iter < Len(columns[ti])
  /\ \E u \in Tables :
       /\ u <= ti
       /\ columnResultsChan[chanOf(u)] # <<>>
       /\ LET res == Head(columnResultsChan[chanOf(u)])
          IN /\ allTableResults' = allTableResults \o res
             /\ resultsChan' = resultsChan \o res
             /\ processedColumns' = processedColumns \cup namesOf(res)
       /\ columnResultsChan' = [columnResultsChan EXCEPT ![chanOf(u)] = Tail(@)]
  /\ iter' = iter + 1
  /\ UNCHANGED << call, ti, pc, columns, listed, tableCtx, wk, errorChan >>

\* one iteration of the collecting loop takes the case of columnResultsChan:
\* the records are appended to allTableResults, sent on resultsChan and
\* their column marked processed
ReceiveResult ==
  /\ pc = "collect"
  /\ iter < Len(columns[ti])
  /\ columnResultsChan[chanOf(ti)] # <<>>
  /\ LET res == Head(columnResultsChan[chanOf(ti)])
     IN /\ allTableResults' = allTableResults \o res
        /\ resultsChan' = resultsChan \o res
        /\ processedColumns' = processedColumns \cup namesOf(res)
  /\ columnResultsChan' = [columnResultsChan EXCEPT ![chanOf(ti)] = Tail(@)]
  /\ iter' = iter + 1
  /\ UNCHANGED << call, ti, pc, columns, listed, tableCtx, wk, errorChan >>

\* mutant of ObserveTableDone: the select has no case for tableCtx.Done()
ObserveTableDoneMissing ==
  /\ pc = "collect"
  /\ FALSE
  /\ UNCHANGED vars

\* one iteration of the collecting loop takes the case of tableCtx.Done()
ObserveTableDone ==
  /\ pc = "collect"
  /\ iter < Len(columns[ti])
  /\ tableDone(ti)
  /\ iter' = iter + 1
  /\ UNCHANGED << call, ti, pc, columns, listed, tableCtx, wk, columnResultsChan, errorChan,
                  allTableResults, processedColumns, resultsChan >>

\* is a category other than Address, None, Unprocessed among the results
hasOtherPersonalData(results) ==
  \E i \in 1..Len(results) :
    results[i].PDNType \notin {"Address", "None", "Unprocessed"}

\* mutant of suppress: Address is downgraded whatever else was found
suppressAlways(results) ==
  [i \in 1..Len(results) |->
     IF results[i].PDNType = "Address"
     THEN [results[i] EXCEPT !.PDNType = "None"]
     ELSE results[i]]

\* the suppression pass over allTableResults
suppress(results) ==
  IF ~hasOtherPersonalData(results)
  THEN [i \in 1..Len(results) |->
          IF results[i].PDNType = "Address"
          THEN [results[i] EXCEPT !.PDNType = "None"]
          ELSE results[i]]
  ELSE results

\* mutant of Suppress: a downgraded record also gets the evidence none
SuppressAsNoneEvidence ==
  /\ pc = "collect"
  /\ iter = Len(columns[ti])
  /\ allTableResults' =
       [i \in 1..Len(allTableResults) |->
          IF suppress(allTableResults)[i] # allTableResults[i]
          THEN [allTableResults[i] EXCEPT !.PDNType = "None", !.FoundIn = "none"]
          ELSE allTableResults[i]]
  /\ pc' = "synth"
  /\ UNCHANGED << call, ti, columns, listed, tableCtx, wk, columnResultsChan, errorChan,
                  iter, processedColumns, resultsChan >>

\* the collecting loop is over: suppression pass and table summary
Suppress ==
  /\ pc = "collect"
  /\ iter = Len(columns[ti])
  /\ allTableResults' = suppress(allTableResults)
  /\ pc' = "synth"
  /\ UNCHANGED << call, ti, columns, listed, tableCtx, wk, columnResultsChan, errorChan,
                  iter, processedColumns, resultsChan >>

columnTimeoutResult(table, column) ==
  PDNResult(table, column, "timeout", NA, ColumnTimeoutPattern, "Unprocessed")

\* mutant of timeoutRecords: a timeout record for every column
timeoutRecordsAll(table, cols, processed) ==
  [i \in 1..Len(cols) |-> columnTimeoutResult(table, cols[i])]

RECURSIVE timeoutRecords(_, _, _)
\* the loop over the columns that are not marked processed
timeoutRecords(table, cols, processed) ==
  IF cols = <<>> THEN <<>>
  ELSE (IF Head(cols) \in processed THEN <<>>
        ELSE << columnTimeoutResult(table, Head(cols)) >>)
         \o timeoutRecords(table, Tail(cols), processed)

\* the timeout records are sent, tableCancel is called, next table
FinishTable ==
  /\ pc = "synth"
  /\ resultsChan' =
       resultsChan \o timeoutRecords(ti, columns[ti], processedColumns)
  /\ tableCtx' = [tableCtx EXCEPT ![ti] = IF @ = "live" THEN "cancelled" ELSE @]
  /\ pc' = nextPc
  /\ ti' = nextTi
  /\ UNCHANGED << call, columns, listed, wk, columnResultsChan, errorChan, iter,
                  allTableResults, processedColumns >>

Next ==
  \/ ListColumnsFail
  \/ ListColumnsOk
  \/ ReceiveResult
  \/ ObserveTableDone
  \/ Suppress
  \/ FinishTable
  \/ \E t \in Tables : TableExpire(t)
  \/ \E t \in Tables, c \in ColNameSet : ColumnExpire(t, c)
  \/ \E t \in Tables, c \in ColNameSet : AnalyzeDone(t, c)
  \/ \E t \in Tables, c \in ColNameSet : WorkerSendFirst(t, c)
  \/ \E t \in Tables, c \in ColNameSet : WorkerSendSecond(t, c)

Spec == Init /\ [][Next]_vars

\* a step of analyzeTablesWithBatches
OrchestratorStep ==
  \/ ListColumnsFail
  \/ ListColumnsOk
  \/ ReceiveResult
  \/ ObserveTableDone
  \/ Suppress
  \/ FinishTable

\* Scheduling: the orchestrator goroutine keeps running, getColumns returns
\* (its context has a deadline) and the timer of a live table context
\* fires.  Nothing is assumed of the workers: a worker may never deliver.
FairSpec ==
  /\ Spec
  /\ WF_vars(OrchestratorStep)
  /\ WF_vars(\E t \in Tables : TableExpire(t))

\* a send of a goroutine
WorkerSend ==
  \E t \in Tables, c \in ColNameSet :
    WorkerSendFirst(t, c) \/ WorkerSendSecond(t, c)

\* Scheduling of the sends: a goroutine that can send does send.  Nothing is
\* assumed of the database, so analyzeColumn need not return.
FairWorkerSpec ==
  /\ Spec
  /\ WF_vars(OrchestratorStep)
  /\ WF_vars(\E t \in Tables : TableExpire(t))
  /\ WF_vars(WorkerSend)

\* ------------------------------------------------------------------------
\* Functions called on their own
\* ------------------------------------------------------------------------

\* all strings over the alphabet A of at most n characters
StringsUpTo(A, n) == UNION { [1..k -> A] : k \in 0..n }

\* the number of bytes of the UTF-8 encoding of a character: one for ASCII,
\* two for the Cyrillic letters and for the dotless i
utf8Len(c) ==
  IF c \in CyrLower \cup CyrUpper \cup {"ru_yo", "RU_yo", "dotless_i"} THEN 2 ELSE 1

\* a Go string: the bytes of the UTF-8 encoding, <<c, k>> being byte k of
\* character c
utf8(s) ==
  Flatten([i \in 1..Len(s) |-> [k \in 1..utf8Len(s[i]) |-> <<s[i], k>>]])

Stars == <<"*", "*", "*", "*">>

\* maskSensitiveData: len and the slices of a Go string count bytes
maskSensitiveData(value) ==
  LET b == utf8(value)
  IN IF value = NA THEN b
     ELSE IF Len(b) > 8
          THEN SubSeq(b, 1, 4) \o utf8(Stars) \o SubSeq(b, Len(b) - 3, Len(b))
          ELSE utf8(Stars)

\* longest string of the alphabet given to maskSensitiveData
MaxMaskLen == 9

valName == <<"n", "a", "m", "e", "@", "e", "x", "a", "m", "p", "l", "e", ".", "c", "o", "m">>

valAbc == <<"a", "b", "c">>

MaskInputs ==
  {NA, valName, valAbc} \cup StringsUpTo({"a", "ru_b"}, MaxMaskLen)

InitMask ==
  /\ ScanInit
  /\ \E v \in MaskInputs :
       call = [fn |-> "maskSensitiveData", arg |-> v, ret |-> <<>>,
               returned |-> FALSE]

CallMask ==
  /\ call.fn = "maskSensitiveData"
  /\ ~call.returned
  /\ call' = [call EXCEPT !.ret = maskSensitiveData(call.arg),
                          !.returned = TRUE]
  /\ UNCHANGED scanVars

SpecMask == InitMask /\ [][CallMask]_vars

\* the column names and the rows given to analyzeColumn
colEmailAddress == <<"e", "m", "a", "i", "l", "_", "a", "d", "d", "r", "e", "s", "s">>

AnalyzeColumns == {colAddr, colPlain, colEmailAddress}

valOne == <<"1">>

valAb == <<"a", "b">>

\* most rows the sample query returns
MaxRows == 2

valIvanov == <<"i", "v", "a", "n", "o", "v", "@", "m", "a", "i", "l", ".", "r", "u">>

AnalyzeAnswers ==
  DbOutcomes \cup {DbOutcome("", <<valIvanov>>, FALSE)} \cup
    { DbOutcome("", rows, FALSE) : rows \in StringsUpTo({valEmail, valOne, valAb}, MaxRows) }

InitAnalyze ==
  /\ ScanInit
  /\ \E column \in AnalyzeColumns, d \in AnalyzeAnswers :
       call = [fn |-> "analyzeColumn", arg |-> <<column, d>>, ret |-> <<>>,
               returned |-> FALSE]

\* one call of analyzeColumn; ret keeps what getSampleValues returned to it
CallAnalyze ==
  /\ call.fn = "analyzeColumn"
  /\ ~call.returned
  /\ \E g \in getSampleValues(call.arg[2]) :
       \E r \in analyzeValues(1, call.arg[1], g) :
         call' = [call EXCEPT !.ret = [values |-> g.values, err |-> g.err,
                                       results |-> r.results],
                              !.returned = TRUE]
  /\ UNCHANGED scanVars

SpecAnalyze == InitAnalyze /\ [][CallAnalyze]_vars

\* the characters and the longest string given to getValuePattern
PatternAlphabet == {"a", "Z", "5", "ru_a", "RU_ya", "ru_yo", "RU_yo", "@", " "}

MaxPatternLen == 3

InitPattern ==
  /\ ScanInit
  /\ \E v \in StringsUpTo(PatternAlphabet, MaxPatternLen) :
       call = [fn |-> "getValuePattern", arg |-> v, ret |-> <<>>,
               returned |-> FALSE]

CallPattern ==
  /\ call.fn = "getValuePattern"
  /\ ~call.returned
  /\ call' = [call EXCEPT !.ret = getValuePattern(call.arg),
                          !.returned = TRUE]
  /\ UNCHANGED scanVars

SpecPattern == InitPattern /\ [][CallPattern]_vars

\* the strings given to checkForPDNPatterns: the words over a few letters,
\* among them the dotless i (U+0131), and some names and values
MaxClassifyLen == 3

valEmailUpper == <<"A", "@", "B", ".", "R", "U">>

valPhone == <<"+", "7", "9", "0", "0", "1", "2", "3", "4", "5", "6", "7">>

colTel == <<"T", "e", "l">>

colFioRu == <<"RU_f", "ru_i", "ru_o">>

ClassifyInputs ==
  StringsUpTo({"f", "i", "o", "F", "I", "dotless_i"}, MaxClassifyLen)
    \cup {valEmail, valEmailUpper, valPhone, colTel, colFioRu, colAddr,
          colPlain, colEmailAddress}

InitClassify ==
  /\ ScanInit
  /\ \E s \in ClassifyInputs :
       call = [fn |-> "checkForPDNPatterns", arg |-> s, ret |-> <<>>,
               returned |-> FALSE]

\* two calls of checkForPDNPatterns on the same string
CallClassify ==
  /\ call.fn = "checkForPDNPatterns"
  /\ ~call.returned
  /\ \E r1, r2 \in checkForPDNPatterns(call.arg) :
       call' = [call EXCEPT !.ret = [first |-> r1, second |-> r2],
                            !.returned = TRUE]
  /\ UNCHANGED scanVars

SpecClassify == InitClassify /\ [][CallClassify]_vars

\* the rows given to getSampleValues: valOne and valTwo share a pattern
valTwo == <<"2">>

MaxSampleRows == 3

InitSample ==
  /\ ScanInit
  /\ \E rows \in StringsUpTo({valEmail, valOne, valTwo, valAb}, MaxSampleRows) :
       call = [fn |-> "getSampleValues", arg |-> DbOutcome("", rows, FALSE),
               ret |-> <<>>, returned |-> FALSE]

CallSample ==
  /\ call.fn = "getSampleValues"
  /\ ~call.returned
  /\ \E g \in getSampleValues(call.arg) :
       call' = [call EXCEPT !.ret = g, !.returned = TRUE]
  /\ UNCHANGED scanVars

SpecSample == InitSample /\ [][CallSample]_vars

\* ------------------------------------------------------------------------
\* main and the report writer
\* ------------------------------------------------------------------------

\* main with the goroutine of saveResultsToCSVBatches, kept in call.ret:
\* written, the records the writer took from resultsChan, in order (the
\* model keeps resultsChan as the log of all sends, so the next record to
\* receive is the one after the last written); closed, whether main closed
\* resultsChan; done, whether the writer sent on doneChan; exit, how the
\* process ended ("" while it runs, "fatal" after log.Fatal, "success" after
\* the final message).  The capacity 1000 of resultsChan is never reached by
\* the scans modelled here.
MainStart ==
  [fn |-> "main", arg |-> <<>>,
   ret |-> [written |-> <<>>, closed |-> FALSE, done |-> FALSE, exit |-> ""],
   returned |-> FALSE]

InitMain == ScanInit /\ call = MainStart

running == call.fn = "main" /\ call.ret.exit = ""

\* the loop body of saveResultsToCSVBatches: receive one record, write it
WriterWrite ==
  /\ running
  /\ ~call.ret.done
  /\ Len(call.ret.written) < Len(resultsChan)
  /\ call' = [call EXCEPT !.ret.written =
                Append(@, resultsChan[Len(call.ret.written) + 1])]
  /\ UNCHANGED scanVars

\* os.Create or the write of the header line fails before the first
\* record is received, or the final writer.Flush fails: the goroutine calls
\* log.Fatal, which ends the process.  (The records in between go to the
\* buffer of the csv writer, which is flushed every 100 records.)
WriterFail ==
  /\ running
  /\ ~call.ret.done
  /\ \/ call.ret.written = <<>>
     \/ call.ret.closed /\ Len(call.ret.written) = Len(resultsChan)
  /\ call' = [call EXCEPT !.ret.exit = "fatal", !.returned = TRUE]
  /\ UNCHANGED scanVars

\* the range loop ends on the closed and drained channel; the writer
\* flushes, returns nil and the goroutine sends on doneChan
WriterFinish ==
  /\ running
  /\ ~call.ret.done
  /\ call.ret.closed
  /\ Len(call.ret.written) = Len(resultsChan)
  /\ call' = [call EXCEPT !.ret.done = TRUE]
  /\ UNCHANGED scanVars

\* mutant of MainClose: resultsChan is closed while the scan still runs
MainCloseEarly ==
  /\ running
  /\ ~call.ret.closed
  /\ call' = [call EXCEPT !.ret.closed = TRUE]
  /\ UNCHANGED scanVars

\* main after analyzeTablesWithBatches returned: close(resultsChan)
MainClose ==
  /\ running
  /\ pc = "done"
  /\ ~call.ret.closed
  /\ call' = [call EXCEPT !.ret.closed = TRUE]
  /\ UNCHANGED scanVars

\* main receives from doneChan and prints the final message
MainSuccess ==
  /\ running
  /\ call.ret.done
  /\ call' = [call EXCEPT !.ret.exit = "success", !.returned = TRUE]
  /\ UNCHANGED scanVars

NextMain ==
  \/ running /\ Next
  \/ WriterWrite
  \/ WriterFail
  \/ WriterFinish
  \/ MainClose
  \/ MainSuccess

SpecMain == InitMain /\ [][NextMain]_vars

\* ------------------------------------------------------------------------
\* Properties
\* ------------------------------------------------------------------------

\* the orchestrator has left table t
Left(t) == t < ti \/ pc = "done"

\* the names of the columns listed for table t
colsOf(t) == { columns[t][i] : i \in 1..Len(columns[t]) }

\* the records sent on resultsChan for table t, in order
recordsOf(t) == SelectSeq(resultsChan, LAMBDA r : r.TableName = t)

\* the records sent on resultsChan for column c of table t, in order
sinkOf(t, c) ==
  SelectSeq(resultsChan, LAMBDA r : r.TableName = t /\ r.ColumnName = c)

\* the goroutine of column c has put its result on columnResultsChan
delivered(t, c) ==
  \/ ~wk[t][c].err /\ wk[t][c].pc \in {"sent", "returned"}
  \/ wk[t][c].err /\ wk[t][c].pc = "returned"

\* the sampling of the column failed in the database
sampleFailed(d) == d.queryErr = "db" \/ (d.queryErr = "" /\ d.rows = <<>> /\ d.checkErr)

\* C1: once the orchestrator has left a table, the records on resultsChan
\* for each listed column are either exactly the records its worker
\* delivered, none of them a timeout record, or exactly one synthesized
\* timeout record; never both and never neither.
C1_ExactlyOneDisposition ==
  \A t \in Tables :
    Left(t) =>
      \A c \in colsOf(t) :
        LET s == sinkOf(t, c)
        IN \/ /\ delivered(t, c)
              /\ s = wk[t][c].res
              /\ s # <<>>
              /\ \A i \in 1..Len(s) : s[i].FoundIn # "timeout"
           \/ s = << columnTimeoutResult(t, c) >>

\* a table left with one column reported by its worker and another one by
\* a synthesized timeout record
C1_Witness ==
  \E t \in Tables :
    /\ Left(t)
    /\ \E c, d \in colsOf(t) :
         /\ c # d
         /\ delivered(t, c) /\ sinkOf(t, c) = wk[t][c].res
         /\ sinkOf(t, d) = << columnTimeoutResult(t, d) >>

\* C2: when the collected results of a table hold no category other than
\* Address, None and Unprocessed, no record of that table reaches resultsChan
\* with category Address.
C2_SinkIsSuppressed ==
  (pc = "synth" /\ ~hasOtherPersonalData(allTableResults)) =>
    \A i \in 1..Len(resultsChan) :
      resultsChan[i].TableName = ti => resultsChan[i].PDNType # "Address"

\* C3: the suppression pass turns every Address result into None when no
\* collected result has a category other than Address, None, Unprocessed,
\* and keeps every Address result when one has.
C3_SuppressionPass ==
  [][ (pc = "collect" /\ pc' = "synth") =>
        /\ Len(allTableResults') = Len(allTableResults)
        /\ \A i \in 1..Len(allTableResults) :
             allTableResults[i].PDNType = "Address" =>
               allTableResults'[i].PDNType =
                 IF \E k \in 1..Len(allTableResults) :
                      allTableResults[k].PDNType
                        \notin {"Address", "None", "Unprocessed"}
                 THEN "Address" ELSE "None" ]_vars

\* the pass has run on a table whose only category is Address: a record
\* found in the header now has category None
C3_Witness ==
  /\ pc = "synth"
  /\ \E i \in 1..Len(allTableResults) :
       /\ allTableResults[i].FoundIn = "header"
       /\ allTableResults[i].PDNType = "None"

\* the pass has run on a table with Address and another category
C3_WitnessKept ==
  /\ pc = "synth"
  /\ \E i, k \in 1..Len(allTableResults) :
       /\ allTableResults[i].PDNType = "Address"
       /\ allTableResults[k].PDNType = "Email"

\* C4: no record of a table is on resultsChan while the orchestrator still
\* collects for it (fewer than N completion signals, table budget live).
C4_EmitAfterAggregation ==
  (pc = "collect" /\ iter < Len(columns[ti]) /\ ~tableDone(ti)) =>
    recordsOf(ti) = <<>>

\* C5: a column whose analysis was cut by the expiry of its column budget
\* is reported by exactly one record, the timeout record.
C5_ColumnBudgetGivesTimeout ==
  \A t \in Tables :
    Left(t) =>
      \A c \in colsOf(t) :
        wk[t][c].timer = "expired" =>
          sinkOf(t, c) = << columnTimeoutResult(t, c) >>

\* C6: in a table whose budget did not expire, a column whose sampling
\* failed is reported by exactly one record, of evidence error, and the
\* records of every column are the ones analyzeColumn gives for the answer
\* the database gave for that column alone.
C6_SampleErrorIsData ==
  \A t \in Tables :
    (Left(t) /\ tableCtx[t] = "cancelled") =>
      \A c \in colsOf(t) :
        /\ (sampleFailed(wk[t][c].db) /\ wk[t][c].timer # "expired") =>
             /\ Len(sinkOf(t, c)) = 1
             /\ sinkOf(t, c)[1].FoundIn = "error"
        /\ sinkOf(t, c) \in
             { r.results : r \in analyzeColumnOf[t, c, wk[t][c].db] }

\* a table left with a column whose sampling failed and a sibling that has
\* a finding, while the scan goes on with the next table
C6_Witness ==
  \E t \in Tables :
    /\ t < ti
    /\ tableCtx[t] = "cancelled"
    /\ \E c, d \in colsOf(t) :
         /\ sampleFailed(wk[t][c].db)
         /\ sinkOf(t, c) # <<>>
         /\ sinkOf(t, c)[1].FoundIn = "error"
         /\ sinkOf(t, d) # <<>>
         /\ sinkOf(t, d)[1].PDNType \notin {"None", "Unprocessed"}

\* C7: a table whose column listing failed has no worker, exactly one
\* record on resultsChan, the table-level one with category Unprocessed,
\* and the orchestrator has moved past it.
C7_ListFailure ==
  \A t \in Tables :
    listed[t] = "failed" =>
      /\ \A c \in ColNameSet : wk[t][c].pc = "none"
      /\ recordsOf(t) = << createTableTimeoutResult(t) >>
      /\ recordsOf(t)[1].PDNType = "Unprocessed"
      /\ Left(t)
      /\ (t < NumTables => listed[t + 1] # "pending" \/ (ti = t + 1 /\ pc = "begin"))

\* the listing of a table failed and the next table is being collected
C7_Witness ==
  \E t \in Tables :
    /\ listed[t] = "failed"
    /\ ti = t + 1
    /\ pc = "collect"

\* the table indices of the records on resultsChan never decrease
tableOrdered(s) ==
  \A i, j \in 1..Len(s) : i < j => s[i].TableName <= s[j].TableName

\* C8: records appear on resultsChan table by table, and from the listing
\* of a table on, the records of every earlier table do not change.
C8_TablesSequential ==
  [][ /\ tableOrdered(resultsChan')
      /\ \A t, u \in Tables :
           (u < t /\ listed'[t] # "pending") => recordsOf(u)' = recordsOf(u)
      /\ \A t \in Tables :
           (\E c \in ColNameSet : wk'[t][c].pc # "none") => \A u \in Tables : u < t => Left(u)'
    ]_vars

\* both tables have records on resultsChan
C8_Witness ==
  \E t, u \in Tables :
    /\ u < t
    /\ recordsOf(u) # <<>>
    /\ Len(recordsOf(t)) >= 2

\* C9: a column context is a child of the table context.  The expiry of a
\* column budget leaves the contexts of all other workers as they were;
\* once the table context is done, every worker context of the table is
\* done and an analysis that is still running ends as cancelled.
C9_TimeoutHierarchy ==
  /\ [](\A t \in Tables : \A c \in ColNameSet :
          (tableDone(t) /\ wk[t][c].pc # "none") => ctxDone(t, c))
  /\ [][ \A t \in Tables : \A c \in ColNameSet :
           /\ (wk[t][c].timer = "live" /\ wk'[t][c].timer = "expired") =>
                \A u \in Tables : \A d \in ColNameSet :
                  (<<u, d>> # <<t, c>>) =>
                    /\ ctxDone(u, d)' = ctxDone(u, d)
                    /\ wk'[u][d] = wk[u][d]
           /\ (wk[t][c].pc = "sampling" /\ wk'[t][c].pc = "analysed"
                 /\ tableDone(t)) =>
                /\ wk'[t][c].db = DbCancelled
                /\ wk'[t][c].res[1].FoundIn = "error"
       ]_vars

\* the budget of one column has expired and a sibling analysis has ended
\* with a finding under its live context
C9_Witness ==
  \E t \in Tables : \E c, d \in colsOf(t) :
    /\ c # d
    /\ wk[t][c].timer = "expired"
    /\ wk[t][c].db = DbCancelled
    /\ wk[t][d].pc = "analysed"
    /\ wk[t][d].db.queryErr = ""
    /\ ~tableDone(t)

\* the table budget expired and cut a running analysis
C9_WitnessTable ==
  \E t \in Tables : \E c \in colsOf(t) :
    /\ tableCtx[t] = "expired"
    /\ wk[t][c].timer = "live"
    /\ wk[t][c].db = DbCancelled
    /\ wk[t][c].pc = "analysed"

\* C10: a column whose worker saw its analysis cancelled by the table
\* context has no record of that worker on resultsChan, only the
\* synthesized timeout record.
C10_CancelledWorkerSilent ==
  \A t \in Tables :
    Left(t) =>
      \A c \in colsOf(t) :
        (wk[t][c].db = DbCancelled /\ wk[t][c].timer # "expired") =>
          sinkOf(t, c) = << columnTimeoutResult(t, c) >>

\* the records a step appends to resultsChan
newRecords == SubSeq(resultsChan', Len(resultsChan) + 1, Len(resultsChan'))

\* s is a prefix of u
isPrefix(s, u) == Len(s) <= Len(u) /\ SubSeq(u, 1, Len(s)) = s

\* C11: a result delivered after the orchestrator has left its table stays
\* in the channel of that table: it is never taken out, the records of a
\* table that was left never change, every record a step sends belongs to
\* the table being processed, and only such records mark a column processed.
C11_LateResultsDiscarded ==
  [][ /\ \A t \in Tables :
           Left(t) =>
             /\ recordsOf(t)' = recordsOf(t)
             /\ isPrefix(columnResultsChan[chanOf(t)], columnResultsChan'[chanOf(t)])
      /\ \A i \in 1..Len(newRecords) : newRecords[i].TableName = ti
      /\ processedColumns' \subseteq
           processedColumns \cup
             { newRecords[i].ColumnName : i \in 1..Len(newRecords) }
    ]_vars

\* a result was delivered to the channel of a table the orchestrator had
\* left, the column is reported by its timeout record, and a later table
\* has been collected
C11_Witness ==
  \E t \in Tables :
    /\ t < ti
    /\ pc = "synth"
    /\ columnResultsChan[chanOf(t)] # <<>>
    /\ LET late == Head(columnResultsChan[chanOf(t)])
       IN /\ late # <<>>
          /\ sinkOf(t, late[1].ColumnName)
               = << columnTimeoutResult(t, late[1].ColumnName) >>
    /\ allTableResults # <<>>

\* a record without its category
withoutType(r) == [r EXCEPT !.PDNType = ""]

\* C12: the wait for the results of a table always ends, also when a worker
\* never delivers, and every table is finished in the end.  When the wait
\* has ended every received record is on resultsChan, and leaving the table
\* sends exactly one timeout record for each column that was not marked
\* processed.
C12_WaitEnds ==
  /\ <>(pc = "done")
  /\ [](pc = "synth" =>
          /\ Len(recordsOf(ti)) = Len(allTableResults)
          /\ \A i \in 1..Len(allTableResults) :
               withoutType(recordsOf(ti)[i]) = withoutType(allTableResults[i]))
  /\ [][ (pc = "synth" /\ pc' # "synth") =>
           /\ Len(newRecords) = Cardinality(colsOf(ti) \ processedColumns)
           /\ \A c \in colsOf(ti) \ processedColumns :
                \E i \in 1..Len(newRecords) :
                  newRecords[i] = columnTimeoutResult(ti, c)
       ]_vars

\* the scan is over although a worker never returned from analyzeColumn;
\* its column is reported by the timeout record
C12_Witness ==
  /\ pc = "done"
  /\ \E t \in Tables : \E c \in colsOf(t) :
       /\ wk[t][c].pc = "sampling"
       /\ sinkOf(t, c) = << columnTimeoutResult(t, c) >>

\* the mask as the claim states it, character by character
maskByCharacters(v) ==
  IF v = NA THEN NA
  ELSE IF Len(v) > 8
       THEN SubSeq(v, 1, 4) \o Stars \o SubSeq(v, Len(v) - 3, Len(v))
       ELSE Stars

\* C13: the mask of N/A is N/A; the mask of a value of more than 8
\* characters is its first 4 characters, four stars and its last 4
\* characters; the mask of any other value is four stars.
C13_MaskByCharacters ==
  (call.fn = "maskSensitiveData" /\ call.returned) =>
    call.ret = utf8(maskByCharacters(call.arg))

\* analyzeColumn has returned after a sampling that succeeded
analyzed == call.fn = "analyzeColumn" /\ call.returned /\ call.ret.err = ""

\* the positions of the none records among the returned records
nonePositions ==
  { i \in 1..Len(call.ret.results) :
      call.ret.results[i].FoundIn = "none" \/ call.ret.results[i].PDNType = "None" }

\* the column name and every deduplicated value classify to nothing
nothingFound ==
  /\ checkForPDNPatterns(call.arg[1]) = {<<>>}
  /\ \A i \in 1..Len(call.ret.values) :
       checkForPDNPatterns(call.ret.values[i].Value) = {<<>>}

emailAddressNoValues ==
  /\ analyzed
  /\ call.arg[1] = colEmailAddress
  /\ call.ret.values = <<>>

\* C15 as stated: a column named email_address without sample values gives
\* exactly one record, of evidence header, category Email and sample N/A.
C15_OnlyEmailHeader ==
  emailAddressNoValues =>
    /\ Len(call.ret.results) = 1
    /\ call.ret.results[1].FoundIn = "header"
    /\ call.ret.results[1].PDNType = "Email"
    /\ call.ret.results[1].SampleValue = NA

\* C15 amended: a column named email_address without sample values gives
\* exactly two records, both of evidence header and sample N/A, one of
\* category Email and one of category Address, in either order.
C15_EmailAndAddressHeaders ==
  emailAddressNoValues =>
    /\ Len(call.ret.results) = 2
    /\ \A i \in 1..2 :
         /\ call.ret.results[i].FoundIn = "header"
         /\ call.ret.results[i].SampleValue = NA
    /\ { call.ret.results[i].PDNType : i \in 1..2 } = {"Email", "Address"}

C15_Witness ==
  /\ emailAddressNoValues
  /\ Len(call.ret.results) = 2
  /\ call.ret.results[1].PDNType = "Address"

abstracted == call.fn = "getValuePattern" /\ call.returned

\* C16: getValuePattern returns, for every string, a pattern with as many
\* characters as the string has, each of them A, 9 or #.
C16_PatternLengthAndAlphabet ==
  abstracted =>
    /\ Len(call.ret) = Len(call.arg)
    /\ \A i \in 1..Len(call.ret) : call.ret[i] \in {"A", "9", "#"}

C16_Witness ==
  /\ abstracted
  /\ call.arg = <<"ru_a", "5", "@">>
  /\ call.ret = <<"A", "9", "#">>

\* the class the claim gives a character
classOfClaim(c) ==
  IF c \in LatLower \cup LatUpper \cup CyrLower \cup CyrUpper \cup {"ru_yo", "RU_yo"}
  THEN "A"
  ELSE IF c \in Digits THEN "9" ELSE "#"

\* C19: the pattern has, at each position, A if and only if the character
\* there is a Latin or Cyrillic letter (ru_yo and RU_yo included), 9 if and
\* only if it is a decimal digit, and # in every other case.
C19_ClassOfEveryCharacter ==
  abstracted =>
    /\ Len(call.ret) = Len(call.arg)
    /\ \A i \in 1..Len(call.arg) : call.ret[i] = classOfClaim(call.arg[i])

classified == call.fn = "checkForPDNPatterns" /\ call.returned

\* the upper-case form of a character and of a string; the dotless i has the
\* capital I
upperChar(c) ==
  IF c = "dotless_i" THEN "I"
  ELSE IF \E u \in DOMAIN LowerOf : LowerOf[u] = c
       THEN CHOOSE u \in DOMAIN LowerOf : LowerOf[u] = c
       ELSE c

ToUpper(s) == [i \in 1..Len(s) |-> upperChar(s[i])]

\* the categories of a returned slice
labels(types) == { types[i] : i \in 1..Len(types) }

\* no rule of checkForPDNPatterns matches the lower-cased string
noRuleMatches(s) ==
  /\ valueTypes(ToLower(s)) = {}
  /\ headerTypes(ToLower(s)) = {}
  /\ ~containsAny(ToLower(s), AddressTokens \cup BirthTokens)

\* what C17 says of one string beside the upper-case form: two calls return
\* the same categories, no category twice, nothing when no rule matches
setSemantics ==
  /\ labels(call.ret.first) = labels(call.ret.second)
  /\ \A i, j \in 1..Len(call.ret.first) :
       call.ret.first[i] = call.ret.first[j] => i = j
  /\ noRuleMatches(call.arg) => call.ret.first = <<>>

\* C17 as stated: for every string, checkForPDNPatterns returns the same
\* categories for the string and for its upper-case form, the same categories
\* on two calls, no category twice, and the empty slice when no rule matches.
C17_CaseInsensitive ==
  classified =>
    /\ setSemantics
    /\ \A r \in checkForPDNPatterns(ToUpper(call.arg)) :
         labels(r) = labels(call.ret.first)

\* C17 amended: the categories of a string and of its upper-case form are
\* the same whenever lower-casing the upper-case form gives the lower-case
\* form of the string (every string of ASCII and Russian characters); the
\* rest holds for every string.
C17_CaseInsensitiveWhereCaseRoundTrips ==
  classified =>
    /\ setSemantics
    /\ ToLower(ToUpper(call.arg)) = ToLower(call.arg) =>
         \A r \in checkForPDNPatterns(ToUpper(call.arg)) :
           labels(r) = labels(call.ret.first)

C17_Witness ==
  /\ classified
  /\ call.arg = <<"f", "I", "o">>
  /\ call.ret.first = <<"FIO">>

sampled == call.fn = "getSampleValues" /\ call.returned /\ call.ret.err = ""

\* C18: the deduplicated values hold exactly one entry for every pattern
\* that occurs among the sampled rows, and the value of each entry is the
\* earliest row with that pattern; a row sampled twice gives one entry.
C18_FirstSeenPerPattern ==
  sampled =>
    LET rows == call.arg.rows
        values == call.ret.values
    IN /\ \A i, j \in 1..Len(values) :
            values[i].Pattern = values[j].Pattern => i = j
       /\ { values[i].Pattern : i \in 1..Len(values) } =
            { getValuePattern(rows[k]) : k \in 1..Len(rows) }
       /\ \A i \in 1..Len(values) :
            \E k \in 1..Len(rows) :
              /\ rows[k] = values[i].Value
              /\ getValuePattern(rows[k]) = values[i].Pattern
              /\ \A m \in 1..(k - 1) : getValuePattern(rows[m]) # values[i].Pattern

C18_Witness ==
  /\ sampled
  /\ call.arg.rows = <<valOne, valTwo, valOne>>
  /\ call.ret.values = << [Value |-> valOne, Pattern |-> <<"9">>] >>

\* the positions of the header records among the returned records
headerPositions ==
  { i \in 1..Len(call.ret.results) : call.ret.results[i].FoundIn = "header" }

\* C20: analyzeColumn returns one header record for every category of the
\* column name; its sample is the first row the sampler read, or N/A when it
\* read none, and its pattern is the pattern of that row, so that the same
\* rows give the same sample on every run.
C20_HeaderSampleIsFirstRow ==
  analyzed =>
    LET rows == call.arg[2].rows
        res == call.ret.results
    IN /\ \A pt \in checkForPDNPatterns(call.arg[1]) :
            \A k \in 1..Len(pt) :
              Cardinality({ i \in headerPositions : res[i].PDNType = pt[k] }) = 1
       /\ \A i \in headerPositions :
            IF rows = <<>>
            THEN res[i].SampleValue = NA
            ELSE /\ res[i].SampleValue = rows[1]
                 /\ res[i].Pattern = getValuePattern(rows[1])

\* the positions of the value records among the returned records
valuePositions ==
  { i \in 1..Len(call.ret.results) : call.ret.results[i].FoundIn = "value" }

\* the categories checkForPDNPatterns finds in a string
categoriesOf(s) == UNION { labels(r) : r \in checkForPDNPatterns(s) }

\* C21: analyzeColumn returns exactly one value record for each pair of a
\* deduplicated value and a category found in it, with that value as sample
\* and its pattern as pattern, and beside them one header record for each
\* category of the column name; column col1 with the single row
\* ivanov@mail.ru gives exactly one record: value, Email, ivanov@mail.ru.
C21_ValueRecordsBesideHeaderRecords ==
  analyzed =>
    LET values == call.ret.values
        res == call.ret.results
    IN /\ \A j \in 1..Len(values) :
            \A t \in categoriesOf(values[j].Value) :
              Cardinality({ i \in valuePositions :
                              /\ res[i].SampleValue = values[j].Value
                              /\ res[i].Pattern = getValuePattern(values[j].Value)
                              /\ res[i].PDNType = t }) = 1
       /\ \A i \in valuePositions :
            \E j \in 1..Len(values) :
              /\ res[i].SampleValue = values[j].Value
              /\ res[i].PDNType \in categoriesOf(values[j].Value)
       /\ \A t \in categoriesOf(call.arg[1]) :
            Cardinality({ i \in headerPositions : res[i].PDNType = t }) = 1
       /\ \A i \in headerPositions : res[i].PDNType \in categoriesOf(call.arg[1])
       /\ Len(res) = Cardinality(headerPositions) + Cardinality(valuePositions)
                       + Cardinality(nonePositions)
       /\ (call.arg[1] = colPlain /\ call.arg[2].rows = <<valIvanov>>) =>
            res = << PDNResult(1, colPlain, "value", valIvanov,
                               getValuePattern(valIvanov), "Email") >>

C21_Witness ==
  /\ analyzed
  /\ headerPositions # {}
  /\ valuePositions # {}

C21_WitnessIvanov ==
  /\ analyzed
  /\ call.arg[1] = colPlain
  /\ call.arg[2].rows = <<valIvanov>>
  /\ Len(call.ret.results) = 1

\* a goroutine is at one of its two sends
atSend(t, c) == wk[t][c].pc \in {"analysed", "sent"}

\* the channel the goroutine of column c sends on next
nextChan(t, c) ==
  IF (wk[t][c].pc = "analysed") = wk[t][c].err
  THEN errorChan[chanOf(t)]
  ELSE columnResultsChan[chanOf(t)]

\* C22: a goroutine that is at a send finds room in the channel, whether or
\* not the orchestrator still receives for the table; errorChan, which is
\* never read, holds one element for every send made on it, at most one per
\* goroutine; and every goroutine that reached its sends returns.
C22_WorkersNeverBlock ==
  /\ [](\A t \in Tables :
          /\ \A c \in ColNameSet : atSend(t, c) => Len(nextChan(t, c)) < Len(columns[t])
          /\ Len(errorChan[chanOf(t)]) =
               Cardinality({ c \in ColNameSet :
                               \/ wk[t][c].pc = "returned"
                               \/ wk[t][c].pc = "sent" /\ wk[t][c].err })
          /\ Len(columnResultsChan[chanOf(t)]) <= Len(columns[t]))
  /\ <>[](\A t \in Tables : \A c \in ColNameSet : ~atSend(t, c))

\* both goroutines of a table returned after the table was left, with the
\* error channel full
C22_Witness ==
  \E t \in Tables :
    /\ Left(t)
    /\ Len(columns[t]) = 2
    /\ \A c \in ColNameSet : wk[t][c].pc = "returned"
    /\ Len(errorChan[chanOf(t)]) = 2
    /\ columnResultsChan[chanOf(t)] # <<>>

\* C23: a send on resultsChan is a step of the orchestrator (no goroutine
\* of a column moves in it) made before the channel is closed; the channel
\* is closed only when the last table is finished; the writer takes the
\* records in the order sent, each once; and the final message is printed
\* only when the channel is closed, every record sent was written and the
\* writer has sent on doneChan.
C23_ReportPipeline ==
  /\ [](call.fn = "main" =>
          /\ call.ret.closed => pc = "done"
          /\ isPrefix(call.ret.written, resultsChan)
          /\ call.ret.done => (call.ret.closed /\ call.ret.written = resultsChan)
          /\ call.ret.exit = "success" =>
               /\ call.ret.done
               /\ call.ret.closed
               /\ call.ret.written = resultsChan)
  /\ [][ resultsChan' # resultsChan =>
           /\ ~call.ret.closed
           /\ wk' = wk
           /\ columnResultsChan' # columnResultsChan \/ pc = "synth" \/ pc = "begin"
       ]_vars

C23_Witness ==
  /\ call.fn = "main"
  /\ call.ret.exit = "success"
  /\ Len(call.ret.written) >= 3

\* column c of table t has a synthesized timeout record on resultsChan
hasTimeoutRecord(t, c) ==
  \E i \in 1..Len(sinkOf(t, c)) : sinkOf(t, c)[i].FoundIn = "timeout"

\* C24: every result a goroutine delivers holds at least one record and all
\* its records name its column; a column has a synthesized timeout record
\* only if the budget of its table expired; when the loop of a table ends
\* without that expiry every listed column is marked processed, and the
\* table is left with the records of the goroutines and no timeout record,
\* also for a column whose sampling failed.
C24_TimeoutOnlyAfterTableExpiry ==
  \A t \in Tables :
    /\ \A c \in colsOf(t) :
         wk[t][c].pc \in {"analysed", "sent", "returned"} =>
           /\ ~wk[t][c].err
           /\ wk[t][c].res # <<>>
           /\ \A i \in 1..Len(wk[t][c].res) : wk[t][c].res[i].ColumnName = c
    /\ (t = ti /\ pc = "synth" /\ tableCtx[t] # "expired") =>
         processedColumns = colsOf(t)
    /\ Left(t) =>
         \A c \in colsOf(t) :
           /\ hasTimeoutRecord(t, c) => tableCtx[t] = "expired"
           /\ tableCtx[t] # "expired" => sinkOf(t, c) = wk[t][c].res

\* a table of two columns left without expiry of its budget, both columns
\* reported by their goroutines, the sampling of one of them failed and the
\* column budget of the other expired
C24_Witness ==
  \E t \in Tables :
    /\ Left(t)
    /\ tableCtx[t] = "cancelled"
    /\ \E c, d \in colsOf(t) :
         /\ c # d
         /\ sampleFailed(wk[t][c].db)
         /\ wk[t][d].timer = "expired"
         /\ ~hasTimeoutRecord(t, c)
         /\ ~hasTimeoutRecord(t, d)

\* C25: the suppression pass keeps the number and the order of the
\* collected results, leaves every result whose category is not Address as
\* it is, and changes at most the category of an Address result.
C25_SuppressionFrame ==
  [][ (pc = "collect" /\ pc' = "synth") =>
        /\ Len(allTableResults') = Len(allTableResults)
        /\ \A i \in 1..Len(allTableResults) :
             IF allTableResults[i].PDNType = "Address"
             THEN [allTableResults'[i] EXCEPT !.PDNType = "Address"]
                    = allTableResults[i]
             ELSE allTableResults'[i] = allTableResults[i] ]_vars

\* the pass has run over two results: an Address result found in a header,
\* now None, and the none record of another column
C25_Witness ==
  /\ pc = "synth"
  /\ Len(allTableResults) = 2
  /\ \E i, k \in 1..2 :
       /\ allTableResults[i].FoundIn = "header"
       /\ allTableResults[i].PDNType = "None"
       /\ allTableResults[k].FoundIn = "none"

\* the (column, evidence, category) triples of a sequence of records
triples(records) ==
  { << records[i].ColumnName, records[i].FoundIn, records[i].PDNType >> :
      i \in 1..Len(records) }

\* no budget expired for table t
noExpiry(t) ==
  /\ tableCtx[t] = "cancelled"
  /\ \A c \in colsOf(t) : wk[t][c].timer # "expired"

\* C26: when a table is left and none of its budgets expired, the triples
\* (column, evidence, category) sent on resultsChan for it are the triples
\* analyzeColumn gives for each listed column and the answer the database
\* gave for that column, whatever result analyzeColumn chose among its
\* possible ones and in whatever order the goroutines ran and delivered.
C26_SinkTriplesFixedByAnswers ==
  \A t \in Tables :
    (Left(t) /\ listed[t] = "ok" /\ noExpiry(t)) =>
      \A choice \in [colsOf(t) -> UNION { analyzeColumnOf[t, c, wk[t][c].db] :
                                            c \in colsOf(t) }] :
        (\A c \in colsOf(t) : choice[c] \in analyzeColumnOf[t, c, wk[t][c].db]) =>
          triples(recordsOf(t)) =
            UNION { triples(choice[c].results) : c \in colsOf(t) }

\* a table of two columns left without expiry whose records were sent in
\* the order opposite to the order of the columns
C26_Witness ==
  \E t \in Tables :
    /\ Left(t)
    /\ listed[t] = "ok"
    /\ noExpiry(t)
    /\ Len(columns[t]) = 2
    /\ recordsOf(t) # <<>>
    /\ recordsOf(t)[1].ColumnName = columns[t][2]

====
